---- MODULE Spec2Model ----
(***************************************************************************)
(* Per-packet SRTP encryption and decryption of pion/srtp (srtp.go):       *)
(* Context.decryptRTP, Context.DecryptRTP, Context.EncryptRTP and          *)
(* Context.encryptRTP, together with the collaborators they call: the      *)
(* per-SSRC rollover state (nextRolloverCount / updateRolloverCount), the  *)
(* replay detector, the MKI registry and the cipher.                       *)
(***************************************************************************)
EXTENDS Integers, Sequences, FiniteSets, TLC

\* ------------------------------------------------------------------ sizes

\* The wire sequence number is 16 bits wide.
SeqNumMax == 65536
\* Quadrants of the 16-bit space used by the rollover estimator.
LowerQuarter == SeqNumMax \div 4
UpperQuarter == 3 * (SeqNumMax \div 4)
\* Bytes are 8 bits wide.
ByteMod == 256

\* The configured ceiling of the rollover counter (2^32 - 1 in production).
MaxROC == 1
\* Number of calls made on a context in one behaviour.
MaxCalls == 3
\* Longest payload, in bytes.
MaxPayload == 1
\* Number of packets the sender of the round-trip scenario encrypts.
MaxPackets == 6

\* Sequence numbers presented to the contexts: both ends of the 16-bit space
\* and the first number above the lower quarter and of the upper quarter.
SeqSamples == {0, LowerQuarter, UpperQuarter, SeqNumMax - 1}
\* The source identifiers of the registry, and the ones the calls are for.
SSRCs == {1, 2}
Sources == {1}
SampleBytes == {0, 255}
Payloads == UNION {[1..n -> SampleBytes] : n \in 0..MaxPayload}

\* "unset/bootstrap" sentinel of highestSequence.
Unset == -1

VARIABLES
    ctx,         \* the context's configuration: cipher, sendMKI, mkis
    ssrcStates,  \* the context's registry: SSRC -> Sequence State
    sndCtx,      \* the configuration of the peer's sending context
    sndStates,   \* the registry of the peer's sending context
    wire,        \* ciphertexts in flight from the sender to the receiver
    sent,        \* number of packets the caller presented in order so far
    logical,     \* logical (unwrapped) sequence number of the last of them
    last,        \* outcome of the last call
    handed,      \* per SSRC, <<operation, index, packet length>> of the successful calls
    exceeded,    \* per SSRC: 0, then 1 once an encrypt call was refused, 2 once a
                 \* later one succeeded, 3 once one after that was refused
    calls,       \* number of calls made so far
    inflight,    \* per goroutine, the call it is in the middle of
    solo,        \* per SSRC, the registry and the outcome of a context that was
                 \* given the calls for that SSRC only
    overlap,     \* per SSRC: two calls for it were in progress at the same time
    twice        \* per SSRC: two decrypt calls accepted the same index

\* The variables of the calls in progress.
conc == <<inflight, solo, overlap, twice>>

vars == <<ctx, ssrcStates, sndCtx, sndStates, wire, sent, logical, last, handed, exceeded, calls,
          inflight, solo, overlap, twice>>

\* ------------------------------------------------------ cipher (transform)

Profiles == {"AES_CM_HMAC_SHA1_80", "AEAD_AES_128_GCM"}
Keys == {1, 2}

\* cipher.AuthTagRTPLen()
AuthTagRTPLen(cipher) == IF cipher.profile = "AEAD_AES_128_GCM" THEN 0 ELSE 10
\* cipher.AEADAuthTagLen()
AEADAuthTagLen(cipher) == IF cipher.profile = "AEAD_AES_128_GCM" THEN 16 ELSE 0

\* uint64(roc) << 16 | uint64(sequenceNumber)
PacketIndex(roc, seq) == roc * SeqNumMax + seq

\* The key stream byte the transform derives from the key and the index.
KeyStream(key, index) == (17 * key + index) % ByteMod
Mask(p, key, index) == [i \in 1..Len(p) |-> (p[i] + KeyStream(key, index)) % ByteMod]
Unmask(b, key, index) == [i \in 1..Len(b) |-> (b[i] + ByteMod - KeyStream(key, index)) % ByteMod]

\* cipher.encryptRTP(dst, header, payload, roc): header, masked payload,
\* authentication tag over (key, roc), the sender's MKI.
CipherEncryptRTP(cipher, mki, ssrc, seq, headerLen, payload, roc) ==
    [ssrc |-> ssrc, seq |-> seq, headerLen |-> headerLen,
     body |-> Mask(payload, cipher.key, PacketIndex(roc, seq)),
     tag |-> [key |-> cipher.key, roc |-> roc],
     mki |-> mki, profile |-> cipher.profile, cut |-> 0]

\* len(ciphertext): `cut` bytes are missing from the tail.
WireLen(pkt) ==
    pkt.headerLen + Len(pkt.body) + AEADAuthTagLen(pkt) + Len(pkt.mki)
        + AuthTagRTPLen(pkt) - pkt.cut

\* cipher.decryptRTP(dst, ciphertext, header, headerLen, roc): the tag
\* verifies only under the key and the rollover counter it was made with and
\* only if no byte is missing.
CipherDecryptOK(cipher, pkt, roc) ==
    /\ pkt.cut = 0
    /\ pkt.profile = cipher.profile
    /\ pkt.tag.key = cipher.key
    /\ pkt.tag.roc = roc
CipherDecryptRTP(cipher, pkt, roc) ==
    Unmask(pkt.body, cipher.key, PacketIndex(roc, pkt.seq))

\* cipher.getMKI(ciphertext, true): the tag bytes in front of the auth tag.
getMKI(pkt) == pkt.mki

\* -------------------------------------------------------- Sequence State

NewSSRCState ==
    [exists |-> FALSE, rolloverCounter |-> 0, highestSequence |-> Unset, seen |-> {}]

\* c.getSRTPSSRCState(ssrc): the entry, created on first use.
getSRTPSSRCState(states, ssrc) == [states[ssrc] EXCEPT !.exists = TRUE]

\* ssrcState.nextRolloverCount(sequenceNumber): (roc, diff, overflow).
nextRolloverCount(st, s) ==
    IF st.highestSequence = Unset
    THEN [roc |-> st.rolloverCounter, diff |-> 0, ovf |-> FALSE]
    ELSE IF st.highestSequence >= UpperQuarter /\ s < LowerQuarter
    THEN IF st.rolloverCounter >= MaxROC
         THEN [roc |-> st.rolloverCounter, diff |-> 0, ovf |-> TRUE]
         ELSE [roc |-> st.rolloverCounter + 1, diff |-> 1, ovf |-> FALSE]
    ELSE IF st.highestSequence < LowerQuarter /\ s >= UpperQuarter
    THEN IF st.rolloverCounter = 0
         THEN [roc |-> st.rolloverCounter, diff |-> 0, ovf |-> FALSE]
         ELSE [roc |-> st.rolloverCounter - 1, diff |-> -1, ovf |-> FALSE]
    ELSE [roc |-> st.rolloverCounter, diff |-> 0, ovf |-> FALSE]

\* ssrcState.updateRolloverCount(sequenceNumber, diff): the commit step.  The
\* state is a high-water mark: a positive diff advances the rollover counter,
\* highestSequence moves only to a new maximum index, and a late packet
\* (diff < 0) changes nothing.
updateRolloverCount(st, s, diff) ==
    IF st.highestSequence = Unset
    THEN [st EXCEPT !.highestSequence = s]
    ELSE IF diff > 0
    THEN [st EXCEPT !.rolloverCounter = @ + diff, !.highestSequence = s]
    ELSE IF diff = 0 /\ s > st.highestSequence
    THEN [st EXCEPT !.highestSequence = s]
    ELSE st

\* replayDetector.Check(index): accepted iff the index was not marked yet.
ReplayCheck(st, index) == index \notin st.seen
\* The deferred commit Check returns.
markAsValid(st, index) == [st EXCEPT !.seen = @ \cup {index}]

\* ------------------------------------------------------------ the context

\* The key of each MKI the receiver may register.
KeyOfMKI(m) == m[1]
SendMKI == <<1>>
RegisteredMKIs == {<<1>>, <<2>>}
UnknownMKI == <<3>>

\* A context as CreateContext leaves it: without MKI (sendMKI and mkis empty)
\* or with the send MKI and one more MKI registered, each with its own cipher.
Contexts ==
    {[cipher |-> [key |-> 1, profile |-> p], sendMKI |-> <<>>, mkis |-> <<>>] : p \in Profiles}
    \cup
    {[cipher |-> [key |-> KeyOfMKI(SendMKI), profile |-> p], sendMKI |-> SendMKI,
      mkis |-> [m \in RegisteredMKIs |-> [key |-> KeyOfMKI(m), profile |-> p]]] : p \in Profiles}

\* The outcome of a call that has not got anywhere yet.
NoCall ==
    [op |-> "none", ssrc |-> 0, seq |-> 0, err |-> "", ev |-> <<>>, roc |-> -1,
     diff |-> 0, ovf |-> FALSE, out |-> <<>>, info |-> 0, wireLen |-> 0,
     headerLen |-> 0, mki |-> <<>>, dstLen |-> 0]

\* ------------------------------------------------------ Context.decryptRTP

\* The AEAD tag left out of the minimum length.
TooShortRTP_NoAEAD(c, pkt) ==
    WireLen(pkt) < pkt.headerLen + Len(c.sendMKI) + AuthTagRTPLen(c.cipher)

\* srtp.go 22-27: the encrypted packet is not long enough.
TooShortRTP(c, pkt) ==
    WireLen(pkt) < pkt.headerLen + AEADAuthTagLen(c.cipher) + Len(c.sendMKI)
                       + AuthTagRTPLen(c.cipher)

\* The context's cipher used for a packet whose MKI is not registered.
DecryptCipher_Fallback(c, pkt) ==
    IF DOMAIN c.mkis # {} /\ getMKI(pkt) \in DOMAIN c.mkis
    THEN [ok |-> TRUE, cipher |-> c.mkis[getMKI(pkt)]]
    ELSE [ok |-> TRUE, cipher |-> c.cipher]

\* The context's cipher used whatever the packet's MKI.
DecryptCipher_Default(c, pkt) == [ok |-> TRUE, cipher |-> c.cipher]

\* srtp.go 41-49: the cipher for the packet's MKI when MKIs are registered,
\* the context's cipher otherwise.
DecryptCipher(c, pkt) ==
    IF DOMAIN c.mkis # {}
    THEN IF getMKI(pkt) \in DOMAIN c.mkis
         THEN [ok |-> TRUE, cipher |-> c.mkis[getMKI(pkt)]]
         ELSE [ok |-> FALSE, cipher |-> c.cipher]
    ELSE [ok |-> TRUE, cipher |-> c.cipher]

\* The late-packet rule without its guard: at rollover counter 0 the unsigned
\* counter wraps around to the ceiling.
DecryptReconstruct_Underflow(st, seq) ==
    IF st.highestSequence # Unset /\ st.highestSequence < LowerQuarter
          /\ seq >= UpperQuarter /\ st.rolloverCounter = 0
    THEN [roc |-> MaxROC, diff |-> -1, ovf |-> FALSE]
    ELSE nextRolloverCount(st, seq)

\* The unset sentinel taken for the highest sequence number 65535.
DecryptReconstruct_NoBootstrap(st, seq) ==
    IF st.highestSequence = Unset
    THEN nextRolloverCount([st EXCEPT !.highestSequence = SeqNumMax - 1], seq)
    ELSE nextRolloverCount(st, seq)

\* srtp.go 31: ssrcState.nextRolloverCount(header.SequenceNumber).
DecryptReconstruct(st, seq) == nextRolloverCount(st, seq)

\* The sender's budget enforced on received packets too.
DecryptRefuses_OnOverflow(n) == n.ovf

\* srtp.go 31: `roc, diff, _ :=` drops the overflow flag; decrypt refuses no
\* packet for it.
DecryptRefuses(n) == FALSE

\* The replay detector's verdict ignored.
ReplayRejects_Never(ssrcState, index) == FALSE

\* srtp.go 32-39: the replay detector does not accept the index.
ReplayRejects(ssrcState, index) == ~ReplayCheck(ssrcState, index)

\* The replay mark forgotten.
DecryptCommit_NoMark(st, index, seq, diff) == updateRolloverCount(st, seq, diff)

\* The guessed rollover counter stored as it is, whatever the diff.
DecryptCommit_StoreGuess(st, index, seq, diff) ==
    [markAsValid(st, index) EXCEPT !.rolloverCounter = index \div SeqNumMax,
                                   !.highestSequence = seq]

\* srtp.go 58-59: markAsValid(), then updateRolloverCount.
DecryptCommit(st, index, seq, diff) ==
    updateRolloverCount(markAsValid(st, index), seq, diff)

\* The commits made before the transform's verdict is looked at.
TransformAndCommit_CommitFirst(ssrcState, cipher, pkt, n) ==
    [ok |-> CipherDecryptOK(cipher, pkt, n.roc),
     st |-> updateRolloverCount(markAsValid(ssrcState, PacketIndex(n.roc, pkt.seq)), pkt.seq, n.diff),
     out |-> IF CipherDecryptOK(cipher, pkt, n.roc)
             THEN CipherDecryptRTP(cipher, pkt, n.roc) ELSE <<>>]

\* srtp.go 53-61: the transform, and only if it succeeds the two commits.
TransformAndCommit(ssrcState, cipher, pkt, n) ==
    IF ~CipherDecryptOK(cipher, pkt, n.roc)
    THEN [ok |-> FALSE, st |-> ssrcState, out |-> <<>>]
    ELSE [ok |-> TRUE,
          st |-> DecryptCommit(ssrcState, PacketIndex(n.roc, pkt.seq), pkt.seq, n.diff),
          out |-> CipherDecryptRTP(cipher, pkt, n.roc)]

\* srtp.go 51: growBufferSize(dst, len(ciphertext)-authTagLen-len(c.sendMKI)).
DecryptDstLen(c, pkt) == WireLen(pkt) - AuthTagRTPLen(c.cipher) - Len(c.sendMKI)

\* One Sequence State looked up for every source.
DecryptSSRCState_Shared(states, ssrc) == getSRTPSSRCState(states, 1)

\* srtp.go 29: c.getSRTPSSRCState(header.SSRC).
DecryptSSRCState(states, ssrc) == getSRTPSSRCState(states, ssrc)

\* srtp.go 14-39, the compute steps of Context.decryptRTP: the length check,
\* the source's state, the reconstruction and the replay check.  `done` says
\* the call has returned; otherwise the call goes on with n and call.
decryptRTPCompute(c, states, pkt) ==
    LET ssrcState == DecryptSSRCState(states, pkt.ssrc)
        n == DecryptReconstruct(ssrcState, pkt.seq)
        index == PacketIndex(n.roc, pkt.seq)
        resolved == [states EXCEPT ![pkt.ssrc] = ssrcState]
        call == [NoCall EXCEPT !.op = "decrypt", !.ssrc = pkt.ssrc, !.seq = pkt.seq,
                               !.wireLen = WireLen(pkt), !.headerLen = pkt.headerLen,
                               !.mki = pkt.mki]
        seen3 == <<"getSRTPSSRCState", "nextRolloverCount", "Check">>
        recon == [call EXCEPT !.roc = n.roc, !.diff = n.diff, !.ovf = n.ovf]
    IN  IF TooShortRTP(c, pkt)
        THEN [done |-> TRUE, states |-> states, n |-> n,
              call |-> [call EXCEPT !.err = "TooShort", !.info = WireLen(pkt)]]
        ELSE IF DecryptRefuses(n)
        THEN [done |-> TRUE, states |-> resolved, n |-> n,
              call |-> [recon EXCEPT !.err = "ExceededMaxPackets",
                                     !.ev = <<"getSRTPSSRCState", "nextRolloverCount">>]]
        ELSE IF ReplayRejects(ssrcState, index)
        THEN [done |-> TRUE, states |-> resolved, n |-> n,
              call |-> [recon EXCEPT !.err = "Duplicate", !.ev = seen3, !.info = pkt.seq]]
        ELSE [done |-> FALSE, states |-> resolved, n |-> n,
              call |-> [recon EXCEPT !.ev = seen3]]

\* srtp.go 41-61, the rest of Context.decryptRTP, on the source's state as it
\* is by then: key selection, the transform and the two commits.
decryptRTPCommit(c, states, pkt, n, call) ==
    LET sel == DecryptCipher(c, pkt)
    IN  IF ~sel.ok
        THEN [states |-> states,
              call |-> [call EXCEPT !.err = "MKINotFound", !.ev = @ \o <<"getMKI">>]]
        ELSE LET ev5 == call.ev \o (IF DOMAIN c.mkis # {} THEN <<"getMKI">> ELSE <<>>)
                             \o <<"cipher.decryptRTP">>
                 tried == [call EXCEPT !.dstLen = DecryptDstLen(c, pkt)]
                 fin == TransformAndCommit(states[pkt.ssrc], sel.cipher, pkt, n)
             IN  IF ~fin.ok
                 THEN [states |-> [states EXCEPT ![pkt.ssrc] = fin.st],
                       call |-> [tried EXCEPT !.err = "TransformFailure", !.ev = ev5]]
                 ELSE [states |-> [states EXCEPT ![pkt.ssrc] = fin.st],
                       call |-> [tried EXCEPT
                                    !.ev = ev5 \o <<"markAsValid", "updateRolloverCount">>,
                                    !.out = fin.out]]

\* Context.decryptRTP run from its first line to its return: the registry and
\* the outcome it leaves.
decryptRTP(c, states, pkt) ==
    LET a == decryptRTPCompute(c, states, pkt)
    IN  IF a.done
        THEN [states |-> a.states, call |-> a.call]
        ELSE decryptRTPCommit(c, a.states, pkt, a.n, a.call)

\* ------------------------------------------------------ Context.encryptRTP

\* A wrap never looked for: the stored counter paired with every number.
EncryptReconstruct_NoWrap(st, seq) ==
    [roc |-> st.rolloverCounter, diff |-> 0, ovf |-> FALSE]

\* srtp.go 100: s.nextRolloverCount(header.SequenceNumber).
EncryptReconstruct(st, seq) == nextRolloverCount(st, seq)

\* The state update forgotten.
EncryptCommit_Skip(st, seq, diff) == st

\* srtp.go 108: the state update, committed before the transform runs.
EncryptCommit(st, seq, diff) == updateRolloverCount(st, seq, diff)

\* A refusal that is never made: the overflow flag dropped as decrypt drops it.
EncryptRefuses_Never(n) == FALSE

\* srtp.go 101: the packet budget is exhausted.
EncryptRefuses(n) == n.ovf

\* The update committed ahead of the refusal, the 32-bit counter wrapping to 0.
EncryptRefusedState_Committed(s, seq) ==
    [s EXCEPT !.rolloverCounter = 0, !.highestSequence = seq]

\* srtp.go 101-107: the state a refused call leaves: the resolved entry, as it was.
EncryptRefusedState(s, seq) == s

\* The update undone when the transform fails, as decrypt would have it.
EncryptTransformState_RolledBack(s, committed, fails) == IF fails THEN s ELSE committed

\* srtp.go 110: the state the transform's return leaves: the committed one,
\* whether the transform failed or not.
EncryptTransformState(s, committed, fails) == committed

\* srtp.go 99-107, the compute steps of Context.encryptRTP: the source's
\* state, the reconstruction and the refusal of a packet beyond the budget.
encryptRTPCompute(c, states, ssrc, seq, headerLen) ==
    LET s == getSRTPSSRCState(states, ssrc)
        n == EncryptReconstruct(s, seq)
        call == [NoCall EXCEPT !.op = "encrypt", !.ssrc = ssrc, !.seq = seq,
                               !.headerLen = headerLen, !.roc = n.roc, !.diff = n.diff,
                               !.ovf = n.ovf, !.mki = c.sendMKI,
                               !.ev = <<"getSRTPSSRCState", "nextRolloverCount">>]
    IN  IF EncryptRefuses(n)
        THEN [done |-> TRUE, n |-> n,
              states |-> [states EXCEPT ![ssrc] = EncryptRefusedState(s, seq)],
              call |-> [call EXCEPT !.err = "ExceededMaxPackets"]]
        ELSE [done |-> FALSE, n |-> n, states |-> [states EXCEPT ![ssrc] = s],
              call |-> call]

\* srtp.go 108-110, the rest of Context.encryptRTP, on the source's state as
\* it is by then: the state update, then the transform; `fails` is the
\* transform's own verdict.
encryptRTPCommit(c, states, payload, fails, n, call) ==
    LET s == states[call.ssrc]
        pkt == CipherEncryptRTP(c.cipher, c.sendMKI, call.ssrc, call.seq, call.headerLen,
                                payload, n.roc)
    IN  [states |-> [states EXCEPT ![call.ssrc] =
                        EncryptTransformState(s, EncryptCommit(s, call.seq, n.diff), fails)],
         pkt |-> IF fails THEN <<>> ELSE <<pkt>>,
         call |-> [call EXCEPT
                      !.err = IF fails THEN "TransformFailure" ELSE "",
                      !.ev = @ \o <<"updateRolloverCount", "cipher.encryptRTP">>,
                      !.out = IF fails THEN <<>> ELSE pkt.body,
                      !.wireLen = IF fails THEN 0 ELSE WireLen(pkt)]]

\* Context.encryptRTP run from its first line to its return.
encryptRTP(c, states, ssrc, seq, headerLen, payload, fails) ==
    LET a == encryptRTPCompute(c, states, ssrc, seq, headerLen)
    IN  IF a.done
        THEN [states |-> a.states, pkt |-> <<>>, call |-> a.call]
        ELSE encryptRTPCommit(c, a.states, payload, fails, a.n, a.call)

\* ------------------------------------------------------------- the calls

LongestPayload == [i \in 1..MaxPayload |-> 255]

\* Packets a peer may have produced for this context: a registered key or a
\* foreign one, any rollover counter, and, when the context expects an MKI, a
\* registered tag or an unknown one.
WireTags(c) == IF c.sendMKI = <<>> THEN {<<>>} ELSE RegisteredMKIs \cup {UnknownMKI}
TagKeys(c, m) == IF m = UnknownMKI THEN {1} ELSE Keys
WirePackets(c) ==
    UNION {{CipherEncryptRTP([key |-> k, profile |-> c.cipher.profile], m, ssrc, seq, 12, p, roc) :
                k \in TagKeys(c, m), ssrc \in Sources, seq \in SeqSamples,
                p \in {LongestPayload}, roc \in 0..MaxROC} : m \in WireTags(c)}

\* Packets of the context's own key that lost bytes on the way.
CutPackets(c) ==
    {CipherEncryptRTP(c.cipher, c.sendMKI, ssrc, seq, 12, LongestPayload, 0) :
        ssrc \in Sources, seq \in SeqSamples}
\* Bytes missing from the tail of a truncated packet: one; enough to leave
\* headerLen + authTagLen + mkiLen - 1; everything behind the header.
Cuts(pkt) ==
    {1, Len(pkt.body) + AEADAuthTagLen(pkt) + 1,
     Len(pkt.body) + AEADAuthTagLen(pkt) + Len(pkt.mki) + AuthTagRTPLen(pkt)}

\* The indices handed to the transform by the calls that succeeded so far.
Handed(h, call) ==
    IF call.err = ""
    THEN [h EXCEPT ![call.ssrc] =
              @ \cup {<<call.op, PacketIndex(call.roc, call.seq), call.wireLen>>}]
    ELSE h

\* The index the last call reconstructed.
LastIndex(call) == PacketIndex(call.roc, call.seq)
\* The successful calls of an operation that were handed an index.
HandedTo(h, op, index) == {x \in h : x[1] = op /\ x[2] = index}

\* Where a source stands after an encrypt call: refused, then encrypting
\* again, then refused again.
Exceeded(e, call) ==
    IF call.err = "ExceededMaxPackets" /\ e[call.ssrc] \in {0, 2}
    THEN [e EXCEPT ![call.ssrc] = @ + 1]
    ELSE IF call.err = "" /\ e[call.ssrc] = 1
    THEN [e EXCEPT ![call.ssrc] = 2]
    ELSE e

\* The goroutines that call into one context.
Goroutines == {1, 2}

\* A goroutine between two calls.
Idle ==
    [busy |-> FALSE, pkt |-> <<>>, payload |-> <<>>, fails |-> FALSE,
     n |-> [roc |-> 0, diff |-> 0, ovf |-> FALSE], call |-> NoCall]

\* No call made yet by any goroutine.
InitConc ==
    /\ inflight = [g \in Goroutines |-> Idle]
    /\ solo = [s \in SSRCs |-> [states |-> [x \in SSRCs |-> NewSSRCState], call |-> NoCall]]
    /\ overlap = [s \in SSRCs |-> FALSE]
    /\ twice = [s \in SSRCs |-> FALSE]

Init ==
    /\ InitConc
    /\ ctx \in Contexts
    /\ sndCtx = ctx
    /\ ssrcStates = [s \in SSRCs |-> NewSSRCState]
    /\ sndStates = [s \in SSRCs |-> NewSSRCState]
    /\ wire = <<>>
    /\ sent = 0
    /\ logical = -1
    /\ last = NoCall
    /\ handed = [s \in SSRCs |-> {}]
    /\ exceeded = [s \in SSRCs |-> 0]
    /\ calls = 0

\* Context.DecryptRTP on a packet whose header parses.
DecryptRTP(pkt) ==
    LET r == decryptRTP(ctx, ssrcStates, pkt)
    IN  /\ ssrcStates' = r.states
        /\ last' = r.call
        /\ UNCHANGED exceeded

\* Context.DecryptRTP on bytes header.Unmarshal rejects (srtp.go 70-73).
DecryptRTPMalformed ==
    /\ last' = [NoCall EXCEPT !.op = "decrypt", !.err = "HeaderParseFailure"]
    /\ UNCHANGED <<ssrcStates, exceeded>>

\* Context.EncryptRTP on a packet whose header parses.
EncryptRTP(ssrc, seq, payload, fails) ==
    LET r == encryptRTP(ctx, ssrcStates, ssrc, seq, 12, payload, fails)
    IN  /\ ssrcStates' = r.states
        /\ last' = r.call
        /\ exceeded' = Exceeded(exceeded, r.call)

\* Context.EncryptRTP on bytes header.Unmarshal rejects (srtp.go 87-90).
EncryptRTPMalformed ==
    /\ last' = [NoCall EXCEPT !.op = "encrypt", !.err = "HeaderParseFailure"]
    /\ UNCHANGED <<ssrcStates, exceeded>>

DecryptIntact == \E pkt \in WirePackets(ctx) : DecryptRTP(pkt)
DecryptTruncated ==
    \E pkt \in CutPackets(ctx) : \E cut \in Cuts(pkt) : DecryptRTP([pkt EXCEPT !.cut = cut])
Encrypt == \E ssrc \in Sources, seq \in SeqSamples, p \in {<<>>, LongestPayload},
              fails \in BOOLEAN :
               EncryptRTP(ssrc, seq, p, fails)

\* One call on a context used for encryption and decryption, MaxCalls calls
\* long; what the successful calls were handed is kept.
Call(A) ==
    /\ calls < MaxCalls
    /\ calls' = calls + 1
    /\ UNCHANGED <<ctx, sndCtx, sndStates, wire, sent, logical, conc>>
    /\ A
    /\ handed' = IF last'.ssrc \in SSRCs THEN Handed(handed, last') ELSE handed

Next ==
    \/ Call(DecryptIntact)
    \/ Call(DecryptTruncated)
    \/ Call(DecryptRTPMalformed)
    \/ Call(Encrypt)
    \/ Call(EncryptRTPMalformed)

Spec == Init /\ [][Next]_vars

\* One call on a context used for encryption only, for any number of calls.
EncryptCall(A) ==
    /\ UNCHANGED <<ctx, sndCtx, sndStates, wire, sent, logical, handed, calls, conc>>
    /\ A

NextEncrypt ==
    \/ EncryptCall(Encrypt)
    \/ EncryptCall(EncryptRTPMalformed)

SpecEncrypt == Init /\ [][NextEncrypt]_vars

\* Packets presented in increasing logical order: the first anywhere, each
\* later one `step` ahead of the one before; the wire carries it modulo 2^16.
NextLogical(steps) ==
    IF logical < 0 THEN SeqSamples ELSE {logical + d : d \in steps}
\* One packet after the other; a quarter of the space ahead (the estimator's
\* tolerance); three quarters ahead.
TolerableSteps == {1, LowerQuarter}
AnySteps == {1, LowerQuarter, UpperQuarter}

\* Context.EncryptRTP on the next packet of an increasing sequence that wraps
\* at most once.
OrderedEncrypt ==
    /\ sent < MaxPackets
    /\ \E l \in NextLogical(AnySteps), fails \in BOOLEAN :
          /\ l < 2 * SeqNumMax
          /\ logical' = l
          /\ EncryptRTP(1, l % SeqNumMax, LongestPayload, fails)
    /\ sent' = sent + 1
    /\ UNCHANGED <<ctx, sndCtx, sndStates, wire, handed, calls, conc>>

NextOrdered == OrderedEncrypt

SpecOrdered == Init /\ [][NextOrdered]_vars

\* The sending contexts of this context's peers: the same key, or, with MKIs,
\* any registered MKI and its key.
Senders(c) ==
    IF c.sendMKI = <<>>
    THEN {c}
    ELSE {[cipher |-> c.mkis[m], sendMKI |-> m, mkis |-> c.mkis] : m \in DOMAIN c.mkis}

InitRoundTrip ==
    /\ InitConc
    /\ ctx \in Contexts
    /\ sndCtx \in Senders(ctx)
    /\ ssrcStates = [s \in SSRCs |-> NewSSRCState]
    /\ sndStates = [s \in SSRCs |-> NewSSRCState]
    /\ wire = <<>>
    /\ sent = 0
    /\ logical = -1
    /\ last = NoCall
    /\ handed = [s \in SSRCs |-> {}]
    /\ exceeded = [s \in SSRCs |-> 0]
    /\ calls = 0

\* The sender's Context.EncryptRTP on the next packet of its stream, once the
\* receiver has taken the one before; the ciphertext goes on the wire with
\* the rollover counter and the payload it was made from.
Send ==
    /\ sent < MaxPackets
    /\ wire = <<>>
    /\ \E l \in NextLogical(TolerableSteps), p \in Payloads :
          LET r == encryptRTP(sndCtx, sndStates, 1, l % SeqNumMax, 12, p, FALSE)
          IN  /\ logical' = l
              /\ sndStates' = r.states
              /\ last' = r.call
              /\ wire' = IF r.pkt = <<>> THEN wire
                         ELSE Append(wire, [pkt |-> r.pkt[1], roc |-> r.call.roc, payload |-> p])
    /\ sent' = sent + 1
    /\ UNCHANGED <<ctx, sndCtx, ssrcStates, handed, exceeded, calls, conc>>

\* The receiver's Context.DecryptRTP on the oldest ciphertext in flight.
Receive ==
    /\ wire # <<>>
    /\ DecryptRTP(Head(wire).pkt)
    /\ wire' = Tail(wire)
    /\ UNCHANGED <<ctx, sndCtx, sndStates, sent, logical, handed, calls, conc>>

NextRoundTrip == Send \/ Receive

SpecRoundTrip == InitRoundTrip /\ [][NextRoundTrip]_vars

\* The wire sequence numbers of a single wraparound.
WrapSequence == <<SeqNumMax - 2, SeqNumMax - 1, 0, 1>>

\* Context.EncryptRTP on the next packet of the wraparound.
WrapEncrypt ==
    /\ sent < Len(WrapSequence)
    /\ \E fails \in BOOLEAN : EncryptRTP(1, WrapSequence[sent + 1], LongestPayload, fails)
    /\ sent' = sent + 1
    /\ UNCHANGED <<ctx, sndCtx, sndStates, wire, logical, handed, calls, conc>>

\* One of the calls made once the wraparound has been processed.
AfterWrap(A) ==
    /\ sent = Len(WrapSequence)
    /\ calls < MaxCalls
    /\ calls' = calls + 1
    /\ UNCHANGED <<ctx, sndCtx, sndStates, wire, sent, logical, handed, conc>>
    /\ A

NextWrap ==
    \/ WrapEncrypt
    \/ AfterWrap(DecryptIntact)
    \/ AfterWrap(Encrypt)

SpecWrap == Init /\ [][NextWrap]_vars

\* Sequence numbers a receiver is sent: the ends of the 16-bit space, the
\* second number of an epoch and the first number above the lower quarter.
ReceiveSeqs == {0, 1, LowerQuarter, SeqNumMax - 1}

\* The packets of a peer that has the context's key, under any rollover counter.
ReceivedPackets(c) ==
    {CipherEncryptRTP(c.cipher, c.sendMKI, 1, seq, 12, LongestPayload, roc) :
        seq \in ReceiveSeqs, roc \in 0..MaxROC}

DecryptReceived == \E pkt \in ReceivedPackets(ctx) : DecryptRTP(pkt)

\* One call on a context used for decryption only, for any number of calls.
ReceiveCall(A) ==
    /\ UNCHANGED <<ctx, sndCtx, sndStates, wire, sent, logical, handed, calls, conc>>
    /\ A

NextReceive ==
    \/ ReceiveCall(DecryptReceived)
    \/ ReceiveCall(DecryptRTPMalformed)

SpecReceive == Init /\ [][NextReceive]_vars

\* Sequence numbers of the calls made concurrently: the two ends of an epoch.
ConcurrentSeqs == {0, SeqNumMax - 1}

\* The packets of a peer that has the context's key, for either source.
ConcurrentPackets(c) ==
    {CipherEncryptRTP(c.cipher, c.sendMKI, ssrc, seq, 12, LongestPayload, roc) :
        ssrc \in SSRCs, seq \in ConcurrentSeqs, roc \in 0..MaxROC}

\* Another goroutine is in the middle of a call for the source.
OthersBusy(g, ssrc) ==
    \E h \in Goroutines \ {g} : inflight[h].busy /\ inflight[h].call.ssrc = ssrc

\* A call returns: its outcome, and what it was handed if it succeeded.
Returns(call) ==
    /\ last' = call
    /\ handed' = Handed(handed, call)
    /\ twice' = IF /\ call.op = "decrypt"
                   /\ call.err = ""
                   /\ HandedTo(handed[call.ssrc], "decrypt", LastIndex(call)) # {}
                THEN [twice EXCEPT ![call.ssrc] = TRUE]
                ELSE twice

\* A goroutine enters a call for a source: the call counts, it overlaps the
\* calls other goroutines are in for that source, and the context that is
\* given this source's calls only is given it too, as `alone`.  The goroutines
\* being alike, goroutine 1 is the one that enters while none is in a call.
Enters(g, ssrc, alone) ==
    /\ calls < MaxCalls
    /\ calls' = calls + 1
    /\ ~inflight[g].busy
    /\ g = 1 \/ inflight[1].busy
    /\ solo' = [solo EXCEPT ![ssrc] = [states |-> alone.states, call |-> alone.call]]
    /\ overlap' = IF OthersBusy(g, ssrc) THEN [overlap EXCEPT ![ssrc] = TRUE] ELSE overlap
    /\ UNCHANGED <<ctx, sndCtx, sndStates, wire, sent, logical, exceeded>>

\* A goroutine leaves the call it was in.
Leaves(g) ==
    /\ inflight' = [inflight EXCEPT ![g] = Idle]
    /\ UNCHANGED <<ctx, sndCtx, sndStates, wire, sent, logical, exceeded, calls, solo, overlap>>

\* srtp.go 14-39 run by goroutine g: Context.DecryptRTP up to the replay check.
DecryptBegin(g, pkt) ==
    LET a == decryptRTPCompute(ctx, ssrcStates, pkt)
    IN  /\ Enters(g, pkt.ssrc, decryptRTP(ctx, solo[pkt.ssrc].states, pkt))
        /\ ssrcStates' = a.states
        /\ IF a.done
           THEN Returns(a.call) /\ UNCHANGED inflight
           ELSE /\ inflight' = [inflight EXCEPT ![g] =
                                   [Idle EXCEPT !.busy = TRUE, !.pkt = pkt, !.n = a.n,
                                                !.call = a.call]]
                /\ UNCHANGED <<last, handed, twice>>

\* srtp.go 41-61 run by goroutine g: the rest of the decrypt call it is in.
DecryptFinish(g) ==
    /\ inflight[g].busy
    /\ inflight[g].call.op = "decrypt"
    /\ LET p == inflight[g]
           r == decryptRTPCommit(ctx, ssrcStates, p.pkt, p.n, p.call)
       IN  ssrcStates' = r.states /\ Returns(r.call)
    /\ Leaves(g)

\* srtp.go 99-107 run by goroutine g: Context.EncryptRTP up to the refusal.
EncryptBegin(g, ssrc, seq, payload, fails) ==
    LET a == encryptRTPCompute(ctx, ssrcStates, ssrc, seq, 12)
    IN  /\ Enters(g, ssrc, encryptRTP(ctx, solo[ssrc].states, ssrc, seq, 12, payload, fails))
        /\ ssrcStates' = a.states
        /\ IF a.done
           THEN Returns(a.call) /\ UNCHANGED inflight
           ELSE /\ inflight' = [inflight EXCEPT ![g] =
                                   [Idle EXCEPT !.busy = TRUE, !.payload = payload,
                                                !.fails = fails, !.n = a.n, !.call = a.call]]
                /\ UNCHANGED <<last, handed, twice>>

\* srtp.go 108-110 run by goroutine g: the rest of the encrypt call it is in.
EncryptFinish(g) ==
    /\ inflight[g].busy
    /\ inflight[g].call.op = "encrypt"
    /\ LET p == inflight[g]
           r == encryptRTPCommit(ctx, ssrcStates, p.payload, p.fails, p.n, p.call)
       IN  ssrcStates' = r.states /\ Returns(r.call)
    /\ Leaves(g)

\* Two goroutines calling into one context, for either source, their calls
\* interleaved between compute and commit.
NextConcurrent ==
    \/ \E g \in Goroutines, pkt \in ConcurrentPackets(ctx) : DecryptBegin(g, pkt)
    \/ \E g \in Goroutines : DecryptFinish(g)
    \/ \E g \in Goroutines, ssrc \in SSRCs, seq \in ConcurrentSeqs :
           EncryptBegin(g, ssrc, seq, LongestPayload, FALSE)
    \/ \E g \in Goroutines : EncryptFinish(g)

\* The contexts of one protection profile, without MKI and with MKIs.
InitConcurrent == Init /\ ctx.cipher.profile = "AEAD_AES_128_GCM"

SpecConcurrent == InitConcurrent /\ [][NextConcurrent]_vars

\* ------------------------------------------------------------ properties

\* The Sequence State proper of a source: rollover counter, highest sequence.
SeqState(st) == <<st.rolloverCounter, st.highestSequence>>
Invoked(call, what) == \E i \in 1..Len(call.ev) : call.ev[i] = what

\* C1: a decrypt call whose transform fails leaves the source's rollover
\* counter, highest sequence and replay state as they were; the replay mark and
\* the rollover update are committed by no failing decrypt call, and a decrypt
\* call whose transform succeeds commits both.
C1_DecryptAllOrNothing ==
    [][(last'.op = "decrypt" /\ last'.ssrc \in SSRCs) =>
        LET s == last'.ssrc
            pre == ssrcStates[s]
            post == ssrcStates'[s]
        IN  /\ last'.err = "TransformFailure" =>
                 /\ Invoked(last', "cipher.decryptRTP")
                 /\ SeqState(post) = SeqState(pre)
                 /\ post.seen = pre.seen
            /\ last'.err # "" =>
                 /\ SeqState(post) = SeqState(pre)
                 /\ post.seen = pre.seen
                 /\ ~Invoked(last', "markAsValid")
                 /\ ~Invoked(last', "updateRolloverCount")
            /\ last'.err = "" =>
                 /\ Invoked(last', "cipher.decryptRTP")
                 /\ post.seen = pre.seen \cup {LastIndex(last')}
                 /\ SeqState(post) = SeqState(updateRolloverCount(pre, last'.seq, last'.diff))
    ]_vars

\* C1 witness: the transform rejected a packet that reconstruction took for a
\* forward wrap, and the rollover counter is still 0.
C1_Witness ==
    /\ last.op = "decrypt"
    /\ last.err = "TransformFailure"
    /\ last.diff = 1
    /\ ssrcStates[last.ssrc].rolloverCounter = 0
    /\ ssrcStates[last.ssrc].seen # {}

\* C2: a packet whose reconstructed index a successful decrypt already
\* accepted is rejected as a duplicate, without the transform being invoked
\* and with rollover counter and highest sequence unchanged.
C2_ReplayRejected ==
    [][(/\ last'.op = "decrypt"
        /\ last'.ssrc \in SSRCs
        /\ HandedTo(handed[last'.ssrc], "decrypt", LastIndex(last')) # {}) =>
        /\ last'.err = "Duplicate"
        /\ ~Invoked(last', "cipher.decryptRTP")
        /\ SeqState(ssrcStates'[last'.ssrc]) = SeqState(ssrcStates[last'.ssrc])
    ]_vars

\* C2 witness: a duplicate was rejected in an epoch after the first.
C2_Witness ==
    /\ last.op = "decrypt"
    /\ last.err = "Duplicate"
    /\ HandedTo(handed[last.ssrc], "decrypt", LastIndex(last)) # {}
    /\ ssrcStates[last.ssrc].rolloverCounter > 0

\* C3: an encrypt call made with the rollover counter at the ceiling and a
\* sequence number that implies a forward wrap fails with BudgetExceeded,
\* without the transform being invoked and with the Sequence State unchanged;
\* so does the call that follows the last packet of the budget.
C3_EncryptBudgetExceeded ==
    [][(/\ last'.op = "encrypt"
        /\ last'.ssrc \in SSRCs
        /\ \/ last'.ovf
           \/ /\ ssrcStates[last'.ssrc].rolloverCounter = MaxROC
              /\ ssrcStates[last'.ssrc].highestSequence >= UpperQuarter
              /\ last'.seq < LowerQuarter) =>
        /\ last'.err = "ExceededMaxPackets"
        /\ ~Invoked(last', "cipher.encryptRTP")
        /\ ~Invoked(last', "updateRolloverCount")
        /\ SeqState(ssrcStates'[last'.ssrc]) = SeqState(ssrcStates[last'.ssrc])
    ]_vars

\* C3 witness: the packet after the last one of the budget was refused.
C3_Witness ==
    /\ last.op = "encrypt"
    /\ last.err = "ExceededMaxPackets"
    /\ last.seq = 0
    /\ ssrcStates[last.ssrc].rolloverCounter = MaxROC
    /\ ssrcStates[last.ssrc].highestSequence = SeqNumMax - 1

C4_WitnessSingleKey ==
    /\ last.op = "decrypt"
    /\ last.err = ""
    /\ last.out # <<>>
    /\ last.roc > 0
    /\ ctx.sendMKI = <<>>

\* The minimum length the context's cipher and MKI ask of a packet.
MinLen(c, headerLen) ==
    headerLen + AuthTagRTPLen(c.cipher) + Len(c.sendMKI) + AEADAuthTagLen(c.cipher)

\* C5: a packet shorter than header + auth tag + key tag + AEAD tag fails with
\* TooShort and its length, before the source's state is resolved or created,
\* the replay detector queried or a transform invoked; so does a packet of
\* headerLen + authTagLen + keyTagLen - 1 bytes.
C5_TooShortFirst ==
    [][(/\ last'.op = "decrypt"
        /\ last'.ssrc \in SSRCs
        /\ last'.wireLen < MinLen(ctx, last'.headerLen)) =>
        /\ last'.err = "TooShort"
        /\ last'.info = last'.wireLen
        /\ last'.ev = <<>>
        /\ ssrcStates' = ssrcStates
    ]_vars

\* C5 witness: a packet of headerLen + authTagLen + keyTagLen - 1 bytes for a
\* source never seen was rejected and the source has no state.
C5_Witness ==
    /\ last.op = "decrypt"
    /\ last.err = "TooShort"
    /\ last.wireLen = last.headerLen + AuthTagRTPLen(ctx.cipher) + Len(ctx.sendMKI) - 1
    /\ ~ssrcStates[last.ssrc].exists

\* C6: with MKIs registered, a packet whose key tag is not registered is never
\* handed to a transform, its replay mark is never committed and the Sequence
\* State stays as it was; once past the length and replay checks it fails with
\* KeyNotFound.
C6_KeyNotFound ==
    [][(/\ last'.op = "decrypt"
        /\ last'.ssrc \in SSRCs
        /\ DOMAIN ctx.mkis # {}
        /\ last'.mki \notin DOMAIN ctx.mkis) =>
        /\ last'.err \in {"TooShort", "Duplicate", "MKINotFound"}
        /\ Invoked(last', "getMKI") => last'.err = "MKINotFound"
        /\ (last'.wireLen >= MinLen(ctx, last'.headerLen)
              /\ LastIndex(last') \notin ssrcStates[last'.ssrc].seen) => last'.err = "MKINotFound"
        /\ ~Invoked(last', "cipher.decryptRTP")
        /\ ~Invoked(last', "markAsValid")
        /\ ssrcStates'[last'.ssrc].seen = ssrcStates[last'.ssrc].seen
        /\ SeqState(ssrcStates'[last'.ssrc]) = SeqState(ssrcStates[last'.ssrc])
    ]_vars

\* C6 witness: a packet that would have advanced the rollover counter failed
\* with KeyNotFound.
C6_Witness ==
    /\ last.op = "decrypt"
    /\ last.err = "MKINotFound"
    /\ last.mki = UnknownMKI
    /\ last.diff = 1
    /\ ssrcStates[last.ssrc].rolloverCounter = 0

\* C7 as stated: over any sequence of encrypt and decrypt calls, the index a
\* successful call is handed was not handed to an earlier successful call of
\* that operation and source for another packet (one of another length).
C7_IndexUniqueAllCalls ==
    [][(last'.op \in {"encrypt", "decrypt"} /\ last'.ssrc \in SSRCs /\ last'.err = "") =>
        \A x \in HandedTo(handed[last'.ssrc], last'.op, LastIndex(last')) :
            x[3] = last'.wireLen
    ]_vars

\* C7 amended: over any sequence of encrypt and decrypt calls, no successful
\* decrypt call is handed an index that an earlier successful decrypt call
\* for the same source was handed.
C7_IndexUniqueDecrypt ==
    [][(last'.op = "decrypt" /\ last'.ssrc \in SSRCs /\ last'.err = "") =>
        /\ HandedTo(handed[last'.ssrc], "decrypt", LastIndex(last')) = {}
        /\ HandedTo(handed'[last'.ssrc], "decrypt", LastIndex(last')) # {}
    ]_vars

\* C7 witness: two packets of one sequence number were decrypted, each under
\* its own rollover counter, after an encrypt call of the same source.
C7_Witness ==
    /\ last.op = "decrypt"
    /\ last.err = ""
    /\ \E i, j \in 0..MaxROC, q \in SeqSamples :
          /\ i # j
          /\ HandedTo(handed[last.ssrc], "decrypt", PacketIndex(i, q)) # {}
          /\ HandedTo(handed[last.ssrc], "decrypt", PacketIndex(j, q)) # {}
    /\ \E x \in handed[last.ssrc] : x[1] = "encrypt"

C10_IndexIncreasesAnyStep ==
    [][(last.op = "encrypt" /\ last'.op = "encrypt") =>
        LastIndex(last') > LastIndex(last)
    ]_vars

\* C10 amended: the same, for the packets that are at most a quarter of the
\* 16-bit space (16384) ahead of the packet before them.
C10_IndexIncreasesWithinTolerance ==
    [][(last.op = "encrypt" /\ last'.op = "encrypt" /\ logical' - logical <= LowerQuarter) =>
        LastIndex(last') > LastIndex(last)
    ]_vars

\* C10 witness: the sequence wrapped and the packet after the wrap got the
\* index of the next epoch.
C10_Witness ==
    /\ last.op = "encrypt"
    /\ logical >= SeqNumMax
    /\ last.diff = 1
    /\ LastIndex(last) = logical

LateWithinTolerance(st, seq) ==
    /\ st.highestSequence # Unset
    /\ st.highestSequence < LowerQuarter
    /\ seq >= UpperQuarter
    /\ st.rolloverCounter > 0

C13_DuplicateCarriesIndex ==
    [][(last'.op = "decrypt" /\ last'.err = "Duplicate") =>
        /\ last'.ssrc \in SSRCs
        /\ LastIndex(last') \in ssrcStates[last'.ssrc].seen
        /\ last'.info = LastIndex(last')
    ]_vars

\* C15: an encrypt call whose reconstruction reports no overflow commits the
\* rollover update before it invokes the transform, and the source's Sequence
\* State is the committed one whether the transform fails or not.
C15_EncryptCommitsFirst ==
    [][(last'.op = "encrypt" /\ last'.ssrc \in SSRCs /\ ~last'.ovf) =>
        LET pre == getSRTPSSRCState(ssrcStates, last'.ssrc)
            post == ssrcStates'[last'.ssrc]
        IN  /\ last'.err \in {"", "TransformFailure"}
            /\ last'.ev = <<"getSRTPSSRCState", "nextRolloverCount",
                            "updateRolloverCount", "cipher.encryptRTP">>
            /\ SeqState(post) = SeqState(updateRolloverCount(pre, last'.seq, last'.diff))
            /\ post.seen = pre.seen
    ]_vars

\* C15 witness: the transform failed on the packet that wrapped the sequence
\* number, and the rollover counter is advanced all the same.
C15_Witness ==
    /\ last.op = "encrypt"
    /\ last.err = "TransformFailure"
    /\ last.diff = 1
    /\ ssrcStates[last.ssrc].rolloverCounter = last.roc
    /\ ssrcStates[last.ssrc].highestSequence = last.seq

\* C16: no decrypt call fails with BudgetExceeded; a decrypt call whose
\* reconstruction reports overflow goes on to the replay check with the
\* rollover counter it was given, is rejected as a duplicate exactly when that
\* index was accepted before, hands any other packet to the transform, and on
\* success commits the replay mark and the rollover update.
C16_DecryptIgnoresOverflow ==
    [][(last'.op = "decrypt" /\ last'.ssrc \in SSRCs) =>
        LET pre == ssrcStates[last'.ssrc]
            post == ssrcStates'[last'.ssrc]
        IN  /\ last'.err # "ExceededMaxPackets"
            /\ last'.ovf =>
                 /\ Invoked(last', "Check")
                 /\ (last'.err = "Duplicate") = (LastIndex(last') \in pre.seen)
                 /\ last'.err \notin {"Duplicate", "MKINotFound"} =>
                        Invoked(last', "cipher.decryptRTP")
                 /\ last'.err = "" =>
                      /\ Invoked(last', "markAsValid")
                      /\ Invoked(last', "updateRolloverCount")
                      /\ post.seen = pre.seen \cup {LastIndex(last')}
                      /\ SeqState(post) =
                             SeqState(updateRolloverCount(pre, last'.seq, last'.diff))
    ]_vars

\* C16 witness: a packet for which reconstruction reported overflow was
\* decrypted and its index is marked.
C16_Witness ==
    /\ last.op = "decrypt"
    /\ last.err = ""
    /\ last.ovf
    /\ LastIndex(last) \in ssrcStates[last.ssrc].seen
    /\ ssrcStates[last.ssrc].rolloverCounter = MaxROC

\* The forward-wrap case of reconstruction.
ForwardWrap(st, seq) ==
    /\ st.highestSequence # Unset
    /\ st.highestSequence >= UpperQuarter
    /\ seq < LowerQuarter
\* The late-packet case of reconstruction.
LatePacket(st, seq) ==
    /\ st.highestSequence # Unset
    /\ st.highestSequence < LowerQuarter
    /\ seq >= UpperQuarter

\* C18: the reconstruction of an encrypt call made with highestSequence in the
\* upper quarter and a sequence number in the lower quarter is rollover counter
\* + 1, diff = +1 and no overflow below the ceiling, and overflow at the
\* ceiling; outside the forward-wrap and late-packet cases it is the stored
\* rollover counter, diff = 0 and no overflow.
C18_ForwardWrap ==
    [][(last'.op = "encrypt" /\ last'.ssrc \in SSRCs) =>
        LET pre == ssrcStates[last'.ssrc]
        IN  /\ (ForwardWrap(pre, last'.seq) /\ pre.rolloverCounter < MaxROC) =>
                 /\ last'.roc = pre.rolloverCounter + 1
                 /\ last'.diff = 1
                 /\ ~last'.ovf
            /\ (ForwardWrap(pre, last'.seq) /\ pre.rolloverCounter >= MaxROC) =>
                 last'.ovf
            /\ (~ForwardWrap(pre, last'.seq) /\ ~LatePacket(pre, last'.seq)) =>
                 /\ last'.roc = pre.rolloverCounter
                 /\ last'.diff = 0
                 /\ ~last'.ovf
    ]_vars

\* C18 witness: an encrypt call wrapped forward to the ceiling and encrypted.
C18_Witness ==
    /\ last.op = "encrypt"
    /\ last.err = ""
    /\ last.diff = 1
    /\ last.roc = MaxROC
    /\ ssrcStates[last.ssrc].rolloverCounter = MaxROC
    /\ exceeded[last.ssrc] = 0

\* C19: with highestSequence in the lower quarter, a sequence number in the
\* upper quarter and rollover counter 0, reconstruction returns rollover
\* counter 0 and diff = 0 without overflow, and the call leaves the rollover
\* counter at 0.
C19_LateAtSessionStart ==
    [][(/\ last'.op \in {"encrypt", "decrypt"}
        /\ last'.ssrc \in SSRCs
        /\ Invoked(last', "nextRolloverCount")
        /\ LatePacket(ssrcStates[last'.ssrc], last'.seq)
        /\ ssrcStates[last'.ssrc].rolloverCounter = 0) =>
        /\ last'.roc = 0
        /\ last'.diff = 0
        /\ ~last'.ovf
        /\ ssrcStates'[last'.ssrc].rolloverCounter = 0
    ]_vars

\* C19 witness: in the first epoch a packet of the upper quarter was decrypted
\* after one of the lower quarter, and the rollover counter is 0.
C19_Witness ==
    /\ last.op = "decrypt"
    /\ last.err = ""
    /\ last.seq >= UpperQuarter
    /\ last.roc = 0
    /\ last.diff = 0
    /\ ssrcStates[last.ssrc].rolloverCounter = 0
    /\ \E i \in ssrcStates[last.ssrc].seen : i < LowerQuarter

\* C20: the first packet processed for a source finds no Sequence State but
\* the one created for it (rollover counter 0, highestSequence unset), is
\* reconstructed with rollover counter 0 and diff = 0 without overflow whatever
\* its sequence number, and once committed leaves highestSequence at its
\* sequence number and the rollover counter at 0.
C20_Bootstrap ==
    [][(/\ last'.op \in {"encrypt", "decrypt"}
        /\ last'.ssrc \in SSRCs
        /\ Invoked(last', "nextRolloverCount")
        /\ ssrcStates[last'.ssrc].highestSequence = Unset) =>
        LET pre == ssrcStates[last'.ssrc]
            post == ssrcStates'[last'.ssrc]
        IN  /\ pre.rolloverCounter = 0
            /\ pre.seen = {}
            /\ post.exists
            /\ last'.roc = 0
            /\ last'.diff = 0
            /\ ~last'.ovf
            /\ last'.err # "ExceededMaxPackets"
            /\ post.rolloverCounter = 0
            /\ post.highestSequence =
                   IF Invoked(last', "updateRolloverCount") THEN last'.seq ELSE Unset
    ]_vars

\* C20 witness: the first packet of a source, one of the lower quarter, was
\* decrypted, and it is the only one the source has accepted.
C20_Witness ==
    /\ last.op = "decrypt"
    /\ last.err = ""
    /\ last.seq < LowerQuarter
    /\ ssrcStates[last.ssrc].highestSequence = last.seq
    /\ ssrcStates[last.ssrc].rolloverCounter = 0
    /\ ssrcStates[last.ssrc].seen = {LastIndex(last)}

\* The sources of the calls that take a step: the call a goroutine is in or
\* enters, or the call that returned at once.
SteppedSources ==
    LET stepping == {g \in Goroutines : inflight'[g] # inflight[g]}
    IN  {IF inflight[g].busy THEN inflight[g].call.ssrc ELSE inflight'[g].call.ssrc :
             g \in stepping}
        \cup (IF stepping = {} THEN {last'.ssrc} ELSE {})

\* A call returns in this step.
CallReturns ==
    \/ \E g \in Goroutines : inflight[g].busy /\ ~inflight'[g].busy
    \/ calls' = calls + 1 /\ inflight' = inflight

\* C14: a step of a call for one source, successful or failing, leaves the
\* Sequence State and replay state of every other source unchanged; and each
\* call of a source whose own calls did not overlap returns, whatever calls for
\* other sources are interleaved with it, what a context given that source's
\* calls alone returns, and leaves that source's state as that context has it.
C14_SourcesIndependent ==
    [][/\ \A b \in SSRCs : ssrcStates'[b] # ssrcStates[b] => b \in SteppedSources
       /\ (CallReturns /\ last'.ssrc \in SSRCs /\ ~overlap'[last'.ssrc]) =>
            /\ last' = solo'[last'.ssrc].call
            /\ ssrcStates'[last'.ssrc] = solo'[last'.ssrc].states[last'.ssrc]
    ]_vars

\* C14 witness: a decrypt call for one source that advanced its rollover
\* counter returned while a call for the other source, entered before it, was
\* still between compute and commit.
C14_Witness ==
    /\ last.op = "decrypt"
    /\ last.err = ""
    /\ last.diff = 1
    /\ ~overlap[last.ssrc]
    /\ ssrcStates[last.ssrc].rolloverCounter = 1
    /\ \E g \in Goroutines :
          /\ inflight[g].busy
          /\ inflight[g].call.ssrc # last.ssrc
          /\ ssrcStates[inflight[g].call.ssrc].highestSequence = Unset

\* C17: an index is accepted by two decrypt calls of a source only if calls
\* for that source overlapped: with the calls of a source one after the
\* other, no index is accepted twice.
C17_TwiceOnlyWhenOverlapping ==
    \A s \in SSRCs : twice[s] => overlap[s]

\* C17 witness: two decrypt calls for one source passed the replay check for
\* the same index before either committed, and both accepted the packet.
C17_Witness ==
    /\ last.op = "decrypt"
    /\ last.err = ""
    /\ twice[last.ssrc]
    /\ overlap[last.ssrc]
    /\ \A g \in Goroutines : ~inflight[g].busy

====
